---- MODULE Spec2Model ----
(***************************************************************************)
(* Model of sigh/nest-timelapse.                                           *)
(*                                                                         *)
(* Part 1: the capture controller getCameraImage (cmd main) together with  *)
(* the helpers of internal/webrtc it drives: CreateOffer, HandleTrack,     *)
(* writeH264ToBuffer, WaitForConnection, monitorConnectionState and        *)
(* WaitForConnectionClose.  The main goroutine, the monitor goroutine and  *)
(* one goroutine per announced remote track are separate processes; the   *)
(* peer connection (pion) and the remote device are the environment.       *)
(*                                                                         *)
(* Part 2: the frame scheduler GenerateFrames of internal/frames.          *)
(***************************************************************************)
EXTENDS Integers, Sequences, FiniteSets, TLC

\* ------------------------------------------------------------ bounds
\* Most remote tracks announced in one session.
MaxTracks == 2
\* Most RTP packets a consumer appends to its buffer.
MaxPackets == 1

\* ------------------------------------------------------------ state
VARIABLES
  pc,             \* position of the main goroutine in getCameraImage
  result,         \* error returned by getCameraImage ("none" while running, "ok" = nil)
  deferClose,     \* defer peerConnection.Close() is registered (the session exists)
  closeCalls,     \* number of invocations of peerConnection.Close()
  closeRequested, \* pion: Close() has run, receivers are stopped
  connState,      \* pion: PeerConnection.ConnectionState()
  gathered,       \* the GatheringCompletePromise channel is closed
  onTrackSet,     \* the OnTrack handler is installed
  answerSdp,      \* the answer returned by GenerateWebRTCStream
  wfcDone,        \* WaitForConnection: channel done is closed
  wfcFailed,      \* WaitForConnection: channel failed is closed
  wfcResult,      \* what WaitForConnection returned
  ctxCancelled,   \* WaitForConnection: cancelMonitor() has run
  monPc,          \* position of the monitorConnectionState goroutine
  closeHandlerSet,\* WaitForConnectionClose installed its state-change handler
  closeDone,      \* WaitForConnectionClose: channel done is closed
  tracks,         \* one record per announced remote track (its handler goroutine)
  videoData,      \* the buffered channel videoData (capacity 1)
  collected,      \* the buffers the main goroutine received from videoData
  encoderCalls,   \* number of invocations of video.ExtractFirstFrame
  publishes,      \* number of completed sends on videoData
  reachedInTime,  \* connected was reached, before failed/closed, while the connect timer had not fired
  sawFailed,      \* the connection has been in failed or closed
  stages,         \* the stages of the run, in the order they were entered
  artifacts,      \* GenerateFrames: the timestamped files found, in discovery order
  speedup,        \* GenerateFrames: the speedup argument, a rational num/den
  timeRange,      \* GenerateFrames: the timeRange argument, <<>> for nil
  gfPc,           \* position of the GenerateFrames goroutine
  validFrames,    \* GenerateFrames: the slice validFrames
  gfI,            \* GenerateFrames: the loop index i (1-based here)
  gfCur,          \* GenerateFrames: the index currentFrame points at
  pending,        \* the frame being sent on the unbuffered frameChan
  received,       \* the frames the reader of frameChan has received
  errChan,        \* the buffered channel errChan (capacity 1)
  frameClosed,    \* number of close(frameChan)
  errClosed,      \* number of close(errChan)
  argStart,       \* MakeTimeRange: the start argument, <<>> for nil
  argEnd,         \* MakeTimeRange: the end argument, <<>> for nil
  argDuration,    \* MakeTimeRange: the duration argument, <<>> for nil
  clock,          \* the wall clock, what time.Now() returns
  calls,          \* the calls of MakeTimeRange made: the clock at the call and its result
  durValue,       \* ParseDuration: the value argument, a sequence of characters
  durOut,         \* ParseDuration: <<>> before the call, then <<its result>>
  timeValue,      \* ParseTime: the value argument, a sequence of characters
  timeOut,        \* ParseTime: <<>> before the call, then <<today's date read, its result>>
  capAt,          \* the instant ExtractFirstFrame reads from time.Now(), in seconds
  tzOffset,       \* the offset of the local time zone from UTC, in seconds
  capName,        \* <<>>, then <<the file name ExtractFirstFrame gives the frame>>
  recovered       \* <<>>, then <<what parseFrameTime returns for that name>>

ctlVars == <<pc, result, deferClose, closeCalls, closeRequested, connState,
             gathered, onTrackSet, answerSdp, wfcDone, wfcFailed, wfcResult,
             ctxCancelled, monPc, closeHandlerSet, closeDone, tracks,
             videoData, collected, encoderCalls, publishes, reachedInTime,
             sawFailed, stages>>

schVars == <<artifacts, speedup, timeRange, gfPc, validFrames, gfI, gfCur,
             pending, received, errChan, frameClosed, errClosed>>

rngVars == <<argStart, argEnd, argDuration, clock, calls>>

timeVars == <<timeValue, timeOut>>

nameVars == <<capAt, tzOffset, capName, recovered>>

prsVars == <<durValue, durOut, timeVars, nameVars>>

vars == <<ctlVars, schVars, rngVars, prsVars>>

\* ------------------------------------------------------------ constants of the code
\* videoData := make(chan *bytes.Buffer, 1)
VideoDataCap == 1

\* What the device-management call can answer.
StreamResponses == {"exec_error", "bad_json", "empty", "sdp_ok", "sdp_invalid"}

\* GenerateWebRTCStream without its check for an empty answer.
GenerateWebRTCStream_NoEmptyCheck(resp) ==
  IF resp = "exec_error" THEN [err |-> "err_answer_exec", sdp |-> ""]
  ELSE IF resp = "bad_json" THEN [err |-> "err_answer_parse", sdp |-> ""]
  ELSE [err |-> "nil", sdp |-> IF resp = "empty" THEN "" ELSE resp]

\* sdm.GenerateWebRTCStream: the answer SDP, or an error.
GenerateWebRTCStream(resp) ==
  IF resp = "exec_error" THEN [err |-> "err_answer_exec", sdp |-> ""]
  ELSE IF resp = "bad_json" THEN [err |-> "err_answer_parse", sdp |-> ""]
  ELSE IF resp = "empty" THEN [err |-> "err_answer_empty", sdp |-> ""]
  ELSE [err |-> "nil", sdp |-> resp]

\* HandleTrack's filter: only a video track with the H264 codec is buffered.
Qualifies(kind, codec) ==
  IF kind # "video" THEN FALSE
  ELSE IF codec # "video/H264" THEN FALSE
  ELSE TRUE

\* ------------------------------------------------------------ initial state
CtlInit ==
  /\ pc = "prelude"
  /\ result = "none"
  /\ deferClose = FALSE
  /\ closeCalls = 0
  /\ closeRequested = FALSE
  /\ connState = "new"
  /\ gathered = FALSE
  /\ onTrackSet = FALSE
  /\ answerSdp = ""
  /\ wfcDone = FALSE
  /\ wfcFailed = FALSE
  /\ wfcResult = "none"
  /\ ctxCancelled = FALSE
  /\ monPc = "idle"
  /\ closeHandlerSet = FALSE
  /\ closeDone = FALSE
  /\ tracks = <<>>
  /\ videoData = <<>>
  /\ collected = <<>>
  /\ encoderCalls = 0
  /\ publishes = 0
  /\ reachedInTime = FALSE
  /\ sawFailed = FALSE
  /\ stages = <<>>

\* ------------------------------------------------------------ returning
\* A run whose return paths skip the deferred Close.
DeferredCloseCalls_Skipped == closeCalls

\* defer peerConnection.Close(): every return made after the session was
\* created invokes Close once more.
DeferredCloseCalls == IF deferClose THEN closeCalls + 1 ELSE closeCalls

\* getCameraImage returns r; the deferred Close runs on the way out.
Return(r) ==
  /\ pc' = "returned"
  /\ result' = r
  /\ closeCalls' = DeferredCloseCalls
  /\ closeRequested' = (closeRequested \/ deferClose)

\* ------------------------------------------------------------ main goroutine
\* auth.GetCredentials, sdm.NewService, FindCamera: any of them may fail,
\* before a session exists.
Prelude ==
  /\ pc = "prelude"
  /\ \E ok \in BOOLEAN :
       IF ok
       THEN /\ pc' = "setup_webrtc"
            /\ UNCHANGED <<result, closeCalls, closeRequested>>
       ELSE Return("err_prelude")
  /\ UNCHANGED <<deferClose, connState, gathered, onTrackSet, answerSdp,
                 wfcDone, wfcFailed, wfcResult, ctxCancelled, monPc,
                 closeHandlerSet, closeDone, tracks, videoData, collected,
                 encoderCalls, publishes, reachedInTime, sawFailed, stages>>
  /\ UNCHANGED <<schVars, rngVars, prsVars>>

\* webrtc.SetupWebRTC, then defer peerConnection.Close().
SetupWebRTC ==
  /\ pc = "setup_webrtc"
  /\ \E ok \in BOOLEAN :
       IF ok
       THEN /\ pc' = "setup_transceivers"
            /\ deferClose' = TRUE
            /\ UNCHANGED <<result, closeCalls, closeRequested>>
       ELSE /\ Return("err_setup_webrtc")
            /\ UNCHANGED deferClose
  /\ UNCHANGED <<connState, gathered, onTrackSet, answerSdp,
                 wfcDone, wfcFailed, wfcResult, ctxCancelled, monPc,
                 closeHandlerSet, closeDone, tracks, videoData, collected,
                 encoderCalls, publishes, reachedInTime, sawFailed, stages>>
  /\ UNCHANGED <<schVars, rngVars, prsVars>>

\* webrtc.SetupTransceivers.
SetupTransceivers ==
  /\ pc = "setup_transceivers"
  /\ \E ok \in BOOLEAN :
       IF ok
       THEN /\ pc' = "create_offer"
            /\ UNCHANGED <<result, closeCalls, closeRequested>>
       ELSE Return("err_transceivers")
  /\ UNCHANGED <<deferClose, connState, gathered, onTrackSet, answerSdp,
                 wfcDone, wfcFailed, wfcResult, ctxCancelled, monPc,
                 closeHandlerSet, closeDone, tracks, videoData, collected,
                 encoderCalls, publishes, reachedInTime, sawFailed, stages>>
  /\ UNCHANGED <<schVars, rngVars, prsVars>>

\* webrtc.CreateOffer up to its select: pc.CreateOffer and SetLocalDescription.
CreateOffer ==
  /\ pc = "create_offer"
  /\ stages' = Append(stages, "negotiate")
  /\ \E out \in {"ok", "err_create_offer", "err_set_local"} :
       IF out = "ok"
       THEN /\ pc' = "gather_wait"
            /\ UNCHANGED <<result, closeCalls, closeRequested>>
       ELSE Return(out)
  /\ UNCHANGED <<deferClose, connState, gathered, onTrackSet, answerSdp,
                 wfcDone, wfcFailed, wfcResult, ctxCancelled, monPc,
                 closeHandlerSet, closeDone, tracks, videoData, collected,
                 encoderCalls, publishes, reachedInTime, sawFailed>>
  /\ UNCHANGED <<schVars, rngVars, prsVars>>

\* CreateOffer's select, case <-gatherComplete; then getCameraImage makes the
\* videoData channel and installs the OnTrack handler.
GatherComplete ==
  /\ pc = "gather_wait"
  /\ gathered
  /\ pc' = "gen_stream"
  /\ onTrackSet' = TRUE
  /\ UNCHANGED <<result, deferClose, closeCalls, closeRequested, connState,
                 gathered, answerSdp, wfcDone, wfcFailed, wfcResult,
                 ctxCancelled, monPc, closeHandlerSet, closeDone, tracks,
                 videoData, collected, encoderCalls, publishes, reachedInTime,
                 sawFailed, stages>>
  /\ UNCHANGED <<schVars, rngVars, prsVars>>

\* CreateOffer's select, case <-time.After(20 * time.Second).
GatherTimeout ==
  /\ pc = "gather_wait"
  /\ ~gathered
  /\ Return("err_gather_timeout")
  /\ UNCHANGED <<deferClose, connState, gathered, onTrackSet, answerSdp,
                 wfcDone, wfcFailed, wfcResult, ctxCancelled, monPc,
                 closeHandlerSet, closeDone, tracks, videoData, collected,
                 encoderCalls, publishes, reachedInTime, sawFailed, stages>>
  /\ UNCHANGED <<schVars, rngVars, prsVars>>

\* sdmService.GenerateWebRTCStream(cameraDevice, offer.SDP).
GenStream ==
  /\ pc = "gen_stream"
  /\ \E resp \in StreamResponses :
       LET r == GenerateWebRTCStream(resp) IN
       IF r.err = "nil"
       THEN /\ pc' = "set_remote"
            /\ answerSdp' = r.sdp
            /\ UNCHANGED <<result, closeCalls, closeRequested>>
       ELSE /\ Return(r.err)
            /\ UNCHANGED answerSdp
  /\ UNCHANGED <<deferClose, connState, gathered, onTrackSet,
                 wfcDone, wfcFailed, wfcResult, ctxCancelled, monPc,
                 closeHandlerSet, closeDone, tracks, videoData, collected,
                 encoderCalls, publishes, reachedInTime, sawFailed, stages>>
  /\ UNCHANGED <<schVars, rngVars, prsVars>>

\* peerConnection.SetRemoteDescription(answer).
SetRemote ==
  /\ pc = "set_remote"
  /\ IF answerSdp = "sdp_ok"
     THEN /\ pc' = "wfc_start"
          /\ UNCHANGED <<result, closeCalls, closeRequested>>
     ELSE Return("err_set_remote")
  /\ UNCHANGED <<deferClose, connState, gathered, onTrackSet, answerSdp,
                 wfcDone, wfcFailed, wfcResult, ctxCancelled, monPc,
                 closeHandlerSet, closeDone, tracks, videoData, collected,
                 encoderCalls, publishes, reachedInTime, sawFailed, stages>>
  /\ UNCHANGED <<schVars, rngVars, prsVars>>

\* WaitForConnection: make the channels and start the monitor goroutine.
WfcStart ==
  /\ pc = "wfc_start"
  /\ pc' = "wfc_select"
  /\ monPc' = "loop"
  /\ stages' = Append(stages, "await_connected")
  /\ UNCHANGED <<result, deferClose, closeCalls, closeRequested, connState,
                 gathered, onTrackSet, answerSdp, wfcDone, wfcFailed,
                 wfcResult, ctxCancelled, closeHandlerSet, closeDone, tracks,
                 videoData, collected, encoderCalls, publishes, reachedInTime,
                 sawFailed>>
  /\ UNCHANGED <<schVars, rngVars, prsVars>>

\* WaitForConnection that returns nil although connected was not observed.
WfcConnected_Unobserved ==
  /\ pc = "wfc_select"
  /\ ~wfcFailed
  /\ wfcResult' = "ok"
  /\ ctxCancelled' = TRUE
  /\ pc' = "record_sleep"
  /\ stages' = Append(stages, "record")
  /\ UNCHANGED <<result, deferClose, closeCalls, closeRequested, connState,
                 gathered, onTrackSet, answerSdp, wfcDone, wfcFailed, monPc,
                 closeHandlerSet, closeDone, tracks, videoData, collected,
                 encoderCalls, publishes, reachedInTime, sawFailed>>
  /\ UNCHANGED <<schVars, rngVars, prsVars>>

\* WaitForConnection's select, case <-done: return nil (cancelMonitor deferred).
WfcConnected ==
  /\ pc = "wfc_select"
  /\ wfcDone
  /\ wfcResult' = "ok"
  /\ ctxCancelled' = TRUE
  /\ pc' = "record_sleep"
  /\ stages' = Append(stages, "record")
  /\ UNCHANGED <<result, deferClose, closeCalls, closeRequested, connState,
                 gathered, onTrackSet, answerSdp, wfcDone, wfcFailed, monPc,
                 closeHandlerSet, closeDone, tracks, videoData, collected,
                 encoderCalls, publishes, reachedInTime, sawFailed>>
  /\ UNCHANGED <<schVars, rngVars, prsVars>>

\* WaitForConnection's select, case <-failed.
WfcFailed ==
  /\ pc = "wfc_select"
  /\ wfcFailed
  /\ wfcResult' = "err_conn_failed"
  /\ ctxCancelled' = TRUE
  /\ Return("err_conn_failed")
  /\ UNCHANGED <<deferClose, connState, gathered, onTrackSet, answerSdp,
                 wfcDone, wfcFailed, monPc, closeHandlerSet, closeDone,
                 tracks, videoData, collected, encoderCalls, publishes,
                 reachedInTime, sawFailed, stages>>
  /\ UNCHANGED <<schVars, rngVars, prsVars>>

\* WaitForConnection's select, case <-time.After(timeout): the timer fires
\* while neither channel is closed.
WfcTimeout ==
  /\ pc = "wfc_select"
  /\ ~wfcDone /\ ~wfcFailed
  /\ wfcResult' = "err_conn_timeout"
  /\ ctxCancelled' = TRUE
  /\ Return("err_conn_timeout")
  /\ UNCHANGED <<deferClose, connState, gathered, onTrackSet, answerSdp,
                 wfcDone, wfcFailed, monPc, closeHandlerSet, closeDone,
                 tracks, videoData, collected, encoderCalls, publishes,
                 reachedInTime, sawFailed, stages>>
  /\ UNCHANGED <<schVars, rngVars, prsVars>>

\* time.Sleep(recordingDuration): the recording window elapses.
RecordSleep ==
  /\ pc = "record_sleep"
  /\ pc' = "wfcc_close"
  /\ UNCHANGED <<result, deferClose, closeCalls, closeRequested, connState,
                 gathered, onTrackSet, answerSdp, wfcDone, wfcFailed,
                 wfcResult, ctxCancelled, monPc, closeHandlerSet, closeDone,
                 tracks, videoData, collected, encoderCalls, publishes,
                 reachedInTime, sawFailed, stages>>
  /\ UNCHANGED <<schVars, rngVars, prsVars>>

\* WaitForConnectionClose that only waits, leaving Close to the deferred call.
WfccClose_NoClose ==
  /\ pc = "wfcc_close"
  /\ closeHandlerSet' = TRUE
  /\ stages' = Append(stages, "close")
  /\ pc' = "wfcc_select"
  /\ UNCHANGED <<result, deferClose, closeCalls, closeRequested, connState,
                 gathered, onTrackSet, answerSdp, wfcDone, wfcFailed,
                 wfcResult, ctxCancelled, monPc, closeDone, tracks,
                 videoData, collected, encoderCalls, publishes,
                 reachedInTime, sawFailed>>
  /\ UNCHANGED <<schVars, rngVars, prsVars>>

\* WaitForConnectionClose installs its state-change handler and calls
\* pc.Close(), which may report an error.
WfccClose ==
  /\ pc = "wfcc_close"
  /\ closeHandlerSet' = TRUE
  /\ closeCalls' = closeCalls + 1
  /\ closeRequested' = TRUE
  /\ stages' = Append(stages, "close")
  /\ \E closeOk \in BOOLEAN :
       pc' = IF closeOk THEN "wfcc_select" ELSE "wfcc_error"
  /\ UNCHANGED <<result, deferClose, connState, gathered, onTrackSet,
                 answerSdp, wfcDone, wfcFailed, wfcResult, ctxCancelled,
                 monPc, closeDone, tracks, videoData, collected,
                 encoderCalls, publishes, reachedInTime, sawFailed>>
  /\ UNCHANGED <<schVars, rngVars, prsVars>>

\* WaitForConnectionClose returns "failed to close peer connection".
WfccCloseError ==
  /\ pc = "wfcc_error"
  /\ Return("err_close")
  /\ UNCHANGED <<deferClose, connState, gathered, onTrackSet, answerSdp,
                 wfcDone, wfcFailed, wfcResult, ctxCancelled, monPc,
                 closeHandlerSet, closeDone, tracks, videoData, collected,
                 encoderCalls, publishes, reachedInTime, sawFailed, stages>>
  /\ UNCHANGED <<schVars, rngVars, prsVars>>

\* WaitForConnectionClose's select, case <-done.
WfccClosed ==
  /\ pc = "wfcc_select"
  /\ closeDone
  /\ pc' = "collect"
  /\ stages' = Append(stages, "collect")
  /\ UNCHANGED <<result, deferClose, closeCalls, closeRequested, connState,
                 gathered, onTrackSet, answerSdp, wfcDone, wfcFailed,
                 wfcResult, ctxCancelled, monPc, closeHandlerSet, closeDone,
                 tracks, videoData, collected, encoderCalls, publishes,
                 reachedInTime, sawFailed>>
  /\ UNCHANGED <<schVars, rngVars, prsVars>>

\* WaitForConnectionClose's select, case <-time.After(timeout); getCameraImage
\* returns the error wrapped as "failed to clean up connection".
WfccTimeout ==
  /\ pc = "wfcc_select"
  /\ ~closeDone
  /\ Return("err_close_timeout")
  /\ UNCHANGED <<deferClose, connState, gathered, onTrackSet, answerSdp,
                 wfcDone, wfcFailed, wfcResult, ctxCancelled, monPc,
                 closeHandlerSet, closeDone, tracks, videoData, collected,
                 encoderCalls, publishes, reachedInTime, sawFailed, stages>>
  /\ UNCHANGED <<schVars, rngVars, prsVars>>

\* getCameraImage's last select, case buffer := <-videoData.
CollectBuffer ==
  /\ pc = "collect"
  /\ videoData # <<>>
  /\ collected' = <<Head(videoData)>>
  /\ videoData' = Tail(videoData)
  /\ pc' = "extract"
  /\ UNCHANGED <<result, deferClose, closeCalls, closeRequested, connState,
                 gathered, onTrackSet, answerSdp, wfcDone, wfcFailed,
                 wfcResult, ctxCancelled, monPc, closeHandlerSet, closeDone,
                 tracks, encoderCalls, publishes, reachedInTime, sawFailed,
                 stages>>
  /\ UNCHANGED <<schVars, rngVars, prsVars>>

\* A collect timeout that hands an empty buffer to the encoder.
CollectTimeout_EncodesAnyway ==
  /\ pc = "collect"
  /\ videoData = <<>>
  /\ collected' = <<[track |-> 0, packets |-> 0]>>
  /\ pc' = "extract"
  /\ UNCHANGED <<result, deferClose, closeCalls, closeRequested, connState,
                 gathered, onTrackSet, answerSdp, wfcDone, wfcFailed,
                 wfcResult, ctxCancelled, monPc, closeHandlerSet, closeDone,
                 tracks, videoData, encoderCalls, publishes, reachedInTime,
                 sawFailed, stages>>
  /\ UNCHANGED <<schVars, rngVars, prsVars>>

\* getCameraImage's last select, case <-time.After(5 * time.Second).
CollectTimeout ==
  /\ pc = "collect"
  /\ videoData = <<>>
  /\ Return("err_no_media")
  /\ UNCHANGED <<deferClose, connState, gathered, onTrackSet, answerSdp,
                 wfcDone, wfcFailed, wfcResult, ctxCancelled, monPc,
                 closeHandlerSet, closeDone, tracks, videoData, collected,
                 encoderCalls, publishes, reachedInTime, sawFailed, stages>>
  /\ UNCHANGED <<schVars, rngVars, prsVars>>

\* video.ExtractFirstFrame(buffer, outputDir).
ExtractFirstFrame ==
  /\ pc = "extract"
  /\ encoderCalls' = encoderCalls + 1
  /\ stages' = Append(stages, "encode")
  /\ \E ok \in BOOLEAN : Return(IF ok THEN "ok" ELSE "err_encoder")
  /\ UNCHANGED <<deferClose, connState, gathered, onTrackSet, answerSdp,
                 wfcDone, wfcFailed, wfcResult, ctxCancelled, monPc,
                 closeHandlerSet, closeDone, tracks, videoData, collected,
                 publishes, reachedInTime, sawFailed>>
  /\ UNCHANGED <<schVars, rngVars, prsVars>>

MainNext ==
  \/ Prelude \/ SetupWebRTC \/ SetupTransceivers \/ CreateOffer
  \/ GatherComplete \/ GatherTimeout \/ GenStream \/ SetRemote
  \/ WfcStart \/ WfcConnected \/ WfcFailed \/ WfcTimeout
  \/ RecordSleep \/ WfccClose \/ WfccCloseError \/ WfccClosed \/ WfccTimeout
  \/ CollectBuffer \/ CollectTimeout \/ ExtractFirstFrame

\* ------------------------------------------------------------ monitor goroutine
\* A monitor loop that never looks at its context.
MonitorLoop_NoCancel ==
  /\ monPc = "loop"
  /\ monPc' = "read"
  /\ UNCHANGED <<pc, result, deferClose, closeCalls, closeRequested,
                 connState, gathered, onTrackSet, answerSdp, wfcDone,
                 wfcFailed, wfcResult, ctxCancelled, closeHandlerSet,
                 closeDone, tracks, videoData, collected, encoderCalls,
                 publishes, reachedInTime, sawFailed, stages>>
  /\ UNCHANGED <<schVars, rngVars, prsVars>>

\* monitorConnectionState, top of the loop: select on ctx.Done() with a default.
MonitorLoop ==
  /\ monPc = "loop"
  /\ monPc' = IF ctxCancelled THEN "exited" ELSE "read"
  /\ UNCHANGED <<pc, result, deferClose, closeCalls, closeRequested,
                 connState, gathered, onTrackSet, answerSdp, wfcDone,
                 wfcFailed, wfcResult, ctxCancelled, closeHandlerSet,
                 closeDone, tracks, videoData, collected, encoderCalls,
                 publishes, reachedInTime, sawFailed, stages>>
  /\ UNCHANGED <<schVars, rngVars, prsVars>>

\* A monitor that takes every state other than failed or closed for connected.
MonitorRead_AnyStateConnects ==
  /\ monPc = "read"
  /\ IF connState \in {"failed", "closed"}
     THEN /\ wfcFailed' = TRUE
          /\ UNCHANGED wfcDone
     ELSE /\ wfcDone' = TRUE
          /\ UNCHANGED wfcFailed
  /\ monPc' = "exited"
  /\ UNCHANGED <<pc, result, deferClose, closeCalls, closeRequested,
                 connState, gathered, onTrackSet, answerSdp, wfcResult,
                 ctxCancelled, closeHandlerSet, closeDone, tracks, videoData,
                 collected, encoderCalls, publishes, reachedInTime, sawFailed,
                 stages>>
  /\ UNCHANGED <<schVars, rngVars, prsVars>>

\* monitorConnectionState, the switch on pc.ConnectionState().
MonitorRead ==
  /\ monPc = "read"
  /\ IF connState = "connected"
     THEN /\ wfcDone' = TRUE
          /\ monPc' = "exited"
          /\ UNCHANGED wfcFailed
     ELSE IF connState \in {"failed", "closed"}
     THEN /\ wfcFailed' = TRUE
          /\ monPc' = "exited"
          /\ UNCHANGED wfcDone
     ELSE /\ monPc' = "sleep"
          /\ UNCHANGED <<wfcDone, wfcFailed>>
  /\ UNCHANGED <<pc, result, deferClose, closeCalls, closeRequested,
                 connState, gathered, onTrackSet, answerSdp, wfcResult,
                 ctxCancelled, closeHandlerSet, closeDone, tracks, videoData,
                 collected, encoderCalls, publishes, reachedInTime, sawFailed,
                 stages>>
  /\ UNCHANGED <<schVars, rngVars, prsVars>>

\* monitorConnectionState: time.Sleep(500 * time.Millisecond) ends.
MonitorSleep ==
  /\ monPc = "sleep"
  /\ monPc' = "loop"
  /\ UNCHANGED <<pc, result, deferClose, closeCalls, closeRequested,
                 connState, gathered, onTrackSet, answerSdp, wfcDone,
                 wfcFailed, wfcResult, ctxCancelled, closeHandlerSet,
                 closeDone, tracks, videoData, collected, encoderCalls,
                 publishes, reachedInTime, sawFailed, stages>>
  /\ UNCHANGED <<schVars, rngVars, prsVars>>

MonitorNext == MonitorLoop \/ MonitorRead \/ MonitorSleep

\* ------------------------------------------------------------ track handlers
\* The OnTrack callback runs HandleTrack in the goroutine pion starts for the
\* track: a track that does not qualify returns nil and nothing is sent.
HandleTrack(i) ==
  /\ tracks[i].st = "handle"
  /\ tracks' = [tracks EXCEPT ![i].st =
                  IF Qualifies(tracks[i].kind, tracks[i].codec)
                  THEN "reading" ELSE "skipped"]
  /\ UNCHANGED <<pc, result, deferClose, closeCalls, closeRequested,
                 connState, gathered, onTrackSet, answerSdp, wfcDone,
                 wfcFailed, wfcResult, ctxCancelled, monPc, closeHandlerSet,
                 closeDone, videoData, collected, encoderCalls, publishes,
                 reachedInTime, sawFailed, stages>>
  /\ UNCHANGED <<schVars, rngVars, prsVars>>

\* writeH264ToBuffer: ReadRTP yields a packet; WriteRTP appends it to the
\* buffer, or fails, which ends the loop.
ReadPacket(i) ==
  /\ tracks[i].st = "reading"
  /\ ~closeRequested
  /\ tracks[i].buf < MaxPackets
  /\ \E writeOk \in BOOLEAN :
       tracks' = IF writeOk
                 THEN [tracks EXCEPT ![i].buf = @ + 1]
                 ELSE [tracks EXCEPT ![i].st = "publish"]
  /\ UNCHANGED <<pc, result, deferClose, closeCalls, closeRequested,
                 connState, gathered, onTrackSet, answerSdp, wfcDone,
                 wfcFailed, wfcResult, ctxCancelled, monPc, closeHandlerSet,
                 closeDone, videoData, collected, encoderCalls, publishes,
                 reachedInTime, sawFailed, stages>>
  /\ UNCHANGED <<schVars, rngVars, prsVars>>

\* writeH264ToBuffer: ReadRTP returns io.EOF or an error (the remote side ended
\* the stream, or Close stopped the receiver); the buffer is returned.
ReadEnd(i) ==
  /\ tracks[i].st = "reading"
  /\ tracks' = [tracks EXCEPT ![i].st = "publish"]
  /\ UNCHANGED <<pc, result, deferClose, closeCalls, closeRequested,
                 connState, gathered, onTrackSet, answerSdp, wfcDone,
                 wfcFailed, wfcResult, ctxCancelled, monPc, closeHandlerSet,
                 closeDone, videoData, collected, encoderCalls, publishes,
                 reachedInTime, sawFailed, stages>>
  /\ UNCHANGED <<schVars, rngVars, prsVars>>

\* The OnTrack callback: videoData <- buffer, which blocks while the channel
\* is full.
Publish(i) ==
  /\ tracks[i].st = "publish"
  /\ Len(videoData) < VideoDataCap
  /\ videoData' = Append(videoData, [track |-> i, packets |-> tracks[i].buf])
  /\ tracks' = [tracks EXCEPT ![i].st = "done"]
  /\ publishes' = publishes + 1
  /\ UNCHANGED <<pc, result, deferClose, closeCalls, closeRequested,
                 connState, gathered, onTrackSet, answerSdp, wfcDone,
                 wfcFailed, wfcResult, ctxCancelled, monPc, closeHandlerSet,
                 closeDone, collected, encoderCalls, reachedInTime, sawFailed,
                 stages>>
  /\ UNCHANGED <<schVars, rngVars, prsVars>>

TrackNext ==
  \/ \E i \in 1..Len(tracks) : HandleTrack(i)
  \/ \E i \in 1..Len(tracks) : ReadPacket(i)
  \/ \E i \in 1..Len(tracks) : ReadEnd(i)
  \/ \E i \in 1..Len(tracks) : Publish(i)

\* ------------------------------------------------------------ environment
\* The tracks the remote side can announce.
TrackTypes ==
  { [kind |-> "audio", codec |-> "audio/opus"],
    [kind |-> "video", codec |-> "video/H264"],
    [kind |-> "video", codec |-> "video/VP8"] }

\* pion: the state changes of a peer connection that was not closed.
ConnTransitions ==
  { <<"new", "connecting">>, <<"connecting", "connected">>,
    <<"connecting", "failed">>, <<"connected", "disconnected">>,
    <<"connected", "failed">>, <<"disconnected", "connected">>,
    <<"disconnected", "failed">> }

\* pion: ICE gathering completes after SetLocalDescription.
IceGathered ==
  /\ pc = "gather_wait"
  /\ ~gathered
  /\ gathered' = TRUE
  /\ UNCHANGED <<pc, result, deferClose, closeCalls, closeRequested,
                 connState, onTrackSet, answerSdp, wfcDone, wfcFailed,
                 wfcResult, ctxCancelled, monPc, closeHandlerSet, closeDone,
                 tracks, videoData, collected, encoderCalls, publishes,
                 reachedInTime, sawFailed, stages>>
  /\ UNCHANGED <<schVars, rngVars, prsVars>>

\* pion: the connection state changes once the remote description is applied.
ConnChange ==
  /\ pc \in {"wfc_start", "wfc_select", "record_sleep", "wfcc_close"}
  /\ ~closeRequested
  /\ \E t \in ConnTransitions :
       /\ t[1] = connState
       /\ connState' = t[2]
       /\ sawFailed' = (sawFailed \/ t[2] = "failed")
       /\ reachedInTime' =
            (reachedInTime \/
               (t[2] = "connected" /\ ~sawFailed /\ wfcResult = "none"))
  /\ UNCHANGED <<pc, result, deferClose, closeCalls, closeRequested,
                 gathered, onTrackSet, answerSdp, wfcDone, wfcFailed,
                 wfcResult, ctxCancelled, monPc, closeHandlerSet, closeDone,
                 tracks, videoData, collected, encoderCalls, publishes,
                 stages>>
  /\ UNCHANGED <<schVars, rngVars, prsVars>>

\* pion: after Close the connection reaches the closed state and the
\* state-change handler, if installed, closes the channel done.
SessionClosed ==
  /\ closeRequested
  /\ connState # "closed"
  /\ connState' = "closed"
  /\ closeDone' = closeHandlerSet
  /\ sawFailed' = TRUE
  /\ UNCHANGED <<pc, result, deferClose, closeCalls, closeRequested,
                 gathered, onTrackSet, answerSdp, wfcDone, wfcFailed,
                 wfcResult, ctxCancelled, monPc, closeHandlerSet, tracks,
                 videoData, collected, encoderCalls, publishes, reachedInTime,
                 stages>>
  /\ UNCHANGED <<schVars, rngVars, prsVars>>

\* pion: the remote side announces a track; OnTrack starts its handler.
AnnounceTrack ==
  /\ onTrackSet
  /\ connState = "connected"
  /\ ~closeRequested
  /\ Len(tracks) < MaxTracks
  /\ \E ty \in TrackTypes :
       tracks' = Append(tracks, [kind |-> ty.kind, codec |-> ty.codec,
                                 st |-> "handle", buf |-> 0])
  /\ UNCHANGED <<pc, result, deferClose, closeCalls, closeRequested,
                 connState, gathered, onTrackSet, answerSdp, wfcDone,
                 wfcFailed, wfcResult, ctxCancelled, monPc, closeHandlerSet,
                 closeDone, videoData, collected, encoderCalls, publishes,
                 reachedInTime, sawFailed, stages>>
  /\ UNCHANGED <<schVars, rngVars, prsVars>>

EnvNext == IceGathered \/ ConnChange \/ SessionClosed \/ AnnounceTrack

\* ------------------------------------------------------------ frame scheduler
\* Bounds of the scheduler's inputs: the number of files and the latest capture
\* second.  File names carry whole seconds (layout 20060102_150405).
MaxArtifacts == 3
MaxTime == 3

\* const maxFPS = 60
maxFPS == 60

\* errChan := make(chan error, 1)
ErrChanCap == 1

\* The speedup values tried, as num/den: 1/2, 1, 3/2, 30, 60, 121/2, 61, 121.
Speedups ==
  { [num |-> 1, den |-> 2], [num |-> 1, den |-> 1], [num |-> 3, den |-> 2],
    [num |-> 30, den |-> 1], [num |-> 60, den |-> 1], [num |-> 121, den |-> 2],
    [num |-> 61, den |-> 1], [num |-> 121, den |-> 1] }

\* The time ranges tried: nil, and [start, end] with start in 0..1 and end in
\* 1..MaxTime (start <= end, as MakeTimeRange returns them).
TimeRanges ==
  {<<>>} \cup { <<[start |-> a, end |-> b]>> : a \in 0..1, b \in 1..MaxTime }

\* time.Duration(speedup): a float64 converted to int64 is truncated.
DurationOfSpeedup(sp) == sp.num \div sp.den

\* A time.Duration is a count of nanoseconds; it is kept here as whole seconds
\* plus nanoseconds below one second.
\* time.Second / time.Duration(maxFPS), in integer nanoseconds.
minFrameDuration == [s |-> 0, ns |-> 1000000000 \div maxFPS]

\* d seconds divided by the integer k > 0, truncated to the nanosecond, by
\* long division three digits at a time.
DivSeconds(d, k) ==
  LET r0 == d % k
      ms == (r0 * 1000) \div k
      r1 == (r0 * 1000) % k
      us == (r1 * 1000) \div k
      r2 == (r1 * 1000) % k
      nn == (r2 * 1000) \div k
  IN [s |-> d \div k, ns |-> ms * 1000000 + us * 1000 + nn]

\* a < b on durations.
DurLess(a, b) == a.s < b.s \/ (a.s = b.s /\ a.ns < b.ns)

\* The loop that never skips a frame.
SkipFrame_Never(duration) == FALSE

\* if duration < minFrameDuration { continue }
SkipFrame(duration) == DurLess(duration, minFrameDuration)

\* FrameInfo.String: the entry of a frame in the ffmpeg concat file, a file
\* line, followed by a duration line if the duration is above zero.
String(f) ==
  IF f.dur.s > 0 \/ f.dur.ns > 0
  THEN <<[line |-> "file", id |-> f.id, dur |-> f.dur],
         [line |-> "duration", id |-> f.id, dur |-> f.dur]>>
  ELSE <<[line |-> "file", id |-> f.id, dur |-> f.dur]>>

\* An error that is never sent.
SendError_Dropped(ch, e) == ch

\* errChan <- err
SendError(ch, e) == Append(ch, e)

\* The filter that drops a frame captured at the end of the range.
InRange_ExclusiveEnd(t, tr) ==
  IF tr = <<>> THEN TRUE
  ELSE ~(t < tr[1].start \/ t >= tr[1].end)

\* The time-range filter of the walk: t.Before(Start) || t.After(End) drops.
InRange(t, tr) ==
  IF tr = <<>> THEN TRUE
  ELSE ~(t < tr[1].start \/ t > tr[1].end)

\* A file name is kept as its extension and the fields that
\* strings.Split(base, "_") gives (the extension taken off the last one).  A
\* field is a word, an 8-digit date (n: the day, counted from the first day of
\* the collection) or a 6-digit time of day (n: the second of the day).
Word(w) == [kind |-> w, n |-> 0]
DateField(d) == [kind |-> "date", n |-> d]
TimeField(sec) == [kind |-> "time", n |-> sec]

\* The name ExtractFirstFrame gives a frame captured at second t:
\* nest_camera_frame_<date>_<time>.jpg
FrameFile(t) ==
  [fields |-> <<Word("nest"), Word("camera"), Word("frame"),
                DateField(t \div 86400), TimeField(t % 86400)>>,
   ext |-> "jpg"]

\* Other files a directory may hold: nest_camera_frame_<date>.jpg (no time
\* field), nest_camera_frame_latest_copy.jpg (five fields, no timestamp),
\* thumbs.jpg (another name), and a well-named file that is not a .jpg.
NoTimeFile ==
  [fields |-> <<Word("nest"), Word("camera"), Word("frame"), DateField(0)>>,
   ext |-> "jpg"]
BadStampFile ==
  [fields |-> <<Word("nest"), Word("camera"), Word("frame"), Word("latest"),
                Word("copy")>>,
   ext |-> "jpg"]
ForeignFile == [fields |-> <<Word("thumbs")>>, ext |-> "jpg"]
PngFile == [FrameFile(0) EXCEPT !.ext = "png"]

FileNames ==
  { FrameFile(t) : t \in 0..MaxTime }
    \cup {NoTimeFile, BadStampFile, ForeignFile, PngFile}

\* strings.HasSuffix(strings.ToLower(path), ".jpg")
IsJpg(f) == f.ext = "jpg"

\* strings.HasPrefix(filepath.Base(path), "nest_camera_frame_"): the first
\* three fields are nest, camera, frame and a fourth field follows.
HasFramePrefix(f) ==
  /\ Len(f.fields) >= 4
  /\ f.fields[1] = Word("nest")
  /\ f.fields[2] = Word("camera")
  /\ f.fields[3] = Word("frame")

\* parseFrameTime: fewer than 4 fields is an error; then parts[3] and parts[4]
\* are read (fields 4 and 5 here), and reading parts[4] of a name of exactly 4
\* fields is an index out of range, a runtime panic; time.Parse of
\* date + "_" + time succeeds on an 8-digit date and a 6-digit time.
parseFrameTime(f) ==
  IF Len(f.fields) < 4 THEN [st |-> "err", t |-> 0]
  ELSE IF Len(f.fields) < 5 THEN [st |-> "panic", t |-> 0]
  ELSE LET dateStr == f.fields[4]
           timeStr == f.fields[5]
       IN IF dateStr.kind = "date" /\ timeStr.kind = "time"
          THEN [st |-> "ok", t |-> dateStr.n * 86400 + timeStr.n]
          ELSE [st |-> "err", t |-> 0]

\* The files the walk callback hands to parseFrameTime.
Parsed(f) == IsJpg(f) /\ HasFramePrefix(f)

\* The walk panics when a file it parses makes parseFrameTime panic.
WalkPanics(as) ==
  \E k \in 1..Len(as) : Parsed(as[k].name) /\ parseFrameTime(as[k].name).st = "panic"

\* The walk callback over the files in walk order: the frames appended to
\* validFrames.
RECURSIVE FilterFrames(_, _)
FilterFrames(as, tr) ==
  IF as = <<>> THEN <<>>
  ELSE LET rest == FilterFrames(Tail(as), tr)
           a == Head(as)
           r == parseFrameTime(a.name)
       IN IF Parsed(a.name) /\ r.st = "ok" /\ InRange(r.t, tr)
          THEN <<[id |-> a.id, t |-> r.t, dur |-> [s |-> 0, ns |-> 0]]>> \o rest
          ELSE rest

\* sort.Slice with less = Time.Before.  For slices this short Go's sort is an
\* insertion sort: an element moves left past the elements it is less than.
RECURSIVE InsertSorted(_, _)
InsertSorted(sorted, x) ==
  IF sorted = <<>> THEN <<x>>
  ELSE LET last == sorted[Len(sorted)]
       IN IF x.t < last.t
          THEN Append(InsertSorted(SubSeq(sorted, 1, Len(sorted) - 1), x), last)
          ELSE Append(sorted, x)

RECURSIVE SortFrames(_)
SortFrames(fs) ==
  IF fs = <<>> THEN <<>>
  ELSE InsertSorted(SortFrames(SubSeq(fs, 1, Len(fs) - 1)), fs[Len(fs)])

\* The inputs: a directory of up to MaxArtifacts files, in walk order.
ArtifactSeqs ==
  UNION { [1..n -> FileNames] : n \in 0..MaxArtifacts }

\* What os.Stat and the walk can come to: the directory is read through, stat
\* fails, the path is not a directory, or the walk meets an error.
DirOutcomes == {"ok", "stat_error", "not_dir", "walk_error"}

SchedInputs ==
  /\ \E ts \in ArtifactSeqs :
       artifacts = [k \in 1..Len(ts) |-> [id |-> k, name |-> ts[k]]]
  /\ speedup \in Speedups
  /\ timeRange \in TimeRanges
  /\ gfPc = "start"
  /\ validFrames = <<>>
  /\ gfI = 0
  /\ gfCur = 0
  /\ pending = <<>>
  /\ received = <<>>
  /\ errChan = <<>>
  /\ frameClosed = 0
  /\ errClosed = 0

\* The scheduler at rest, while the capture controller is the one running.
SchedIdle ==
  /\ artifacts = <<>>
  /\ speedup = [num |-> 1, den |-> 1]
  /\ timeRange = <<>>
  /\ gfPc = "idle"
  /\ validFrames = <<>>
  /\ gfI = 0
  /\ gfCur = 0
  /\ pending = <<>>
  /\ received = <<>>
  /\ errChan = <<>>
  /\ frameClosed = 0
  /\ errClosed = 0

\* The goroutine of GenerateFrames up to its loop: stat, walk (the first n
\* files are visited before an error of the walk, all of them without one),
\* filter, the check for an empty result, sort.  On an error it sends it and
\* returns, and the deferred calls close both channels; they also run when
\* parseFrameTime panics.
GF_Start ==
  /\ gfPc = "start"
  /\ \E d \in DirOutcomes, n \in 0..Len(artifacts) :
       /\ d = "ok" => n = Len(artifacts)
       /\ d \in {"stat_error", "not_dir"} => n = 0
       /\ LET visited == SubSeq(artifacts, 1, n)
              fs == FilterFrames(visited, timeRange)
          IN IF WalkPanics(visited)
             THEN /\ gfPc' = "panic_index"
                  /\ errClosed' = errClosed + 1
                  /\ frameClosed' = frameClosed + 1
                  /\ UNCHANGED <<validFrames, gfI, gfCur, errChan>>
             ELSE IF d # "ok" \/ Len(fs) = 0
             THEN /\ errChan' = SendError(errChan,
                                          IF d # "ok" THEN d ELSE "no valid image files")
                  /\ errClosed' = errClosed + 1
                  /\ frameClosed' = frameClosed + 1
                  /\ gfPc' = "done"
                  /\ UNCHANGED <<validFrames, gfI, gfCur>>
             ELSE /\ validFrames' = SortFrames(fs)
                  /\ gfCur' = 1
                  /\ gfI' = 2
                  /\ gfPc' = "loop"
                  /\ UNCHANGED <<errChan, errClosed, frameClosed>>
  /\ UNCHANGED <<artifacts, speedup, timeRange, pending, received>>
  /\ UNCHANGED <<ctlVars, rngVars, prsVars>>

\* One iteration of the loop: the duration to the next frame, divided by the
\* truncated speedup (a zero divisor is a runtime panic; the deferred calls
\* still close both channels); then skip, or set the duration of the current
\* frame and send it.
GF_Loop ==
  /\ gfPc = "loop"
  /\ gfI <= Len(validFrames)
  /\ IF DurationOfSpeedup(speedup) = 0
     THEN /\ gfPc' = "panic"
          /\ errClosed' = errClosed + 1
          /\ frameClosed' = frameClosed + 1
          /\ UNCHANGED <<validFrames, gfI, pending>>
     ELSE /\ LET duration ==
                   DivSeconds(validFrames[gfI].t - validFrames[gfCur].t,
                              DurationOfSpeedup(speedup))
             IN IF SkipFrame(duration)
                THEN /\ gfI' = gfI + 1
                     /\ UNCHANGED <<gfPc, validFrames, pending>>
                ELSE /\ validFrames' = [validFrames EXCEPT ![gfCur].dur = duration]
                     /\ pending' = <<[validFrames[gfCur] EXCEPT !.dur = duration]>>
                     /\ gfPc' = "send"
                     /\ UNCHANGED gfI
          /\ UNCHANGED <<errClosed, frameClosed>>
  /\ UNCHANGED <<artifacts, speedup, timeRange, gfCur, received, errChan>>
  /\ UNCHANGED <<ctlVars, rngVars, prsVars>>

\* frameChan <- *currentFrame completes when the reader receives; then
\* currentFrame = &validFrames[i] and the loop goes on.
GF_Send ==
  /\ gfPc = "send"
  /\ received' = Append(received, pending[1])
  /\ pending' = <<>>
  /\ gfCur' = gfI
  /\ gfI' = gfI + 1
  /\ gfPc' = "loop"
  /\ UNCHANGED <<artifacts, speedup, timeRange, validFrames, errChan,
                 frameClosed, errClosed>>
  /\ UNCHANGED <<ctlVars, rngVars, prsVars>>

\* After the loop: the last frame is sent with duration 0.
GF_Final ==
  /\ gfPc = "loop"
  /\ gfI > Len(validFrames)
  /\ validFrames' = [validFrames EXCEPT ![gfCur].dur = [s |-> 0, ns |-> 0]]
  /\ pending' = <<[validFrames[gfCur] EXCEPT !.dur = [s |-> 0, ns |-> 0]]>>
  /\ gfPc' = "send_final"
  /\ UNCHANGED <<artifacts, speedup, timeRange, gfI, gfCur, received, errChan,
                 frameClosed, errClosed>>
  /\ UNCHANGED <<ctlVars, rngVars, prsVars>>

\* A goroutine that returns after the last frame and closes nothing.
GF_SendFinal_NoClose ==
  /\ gfPc = "send_final"
  /\ received' = Append(received, pending[1])
  /\ pending' = <<>>
  /\ gfPc' = "done"
  /\ UNCHANGED <<artifacts, speedup, timeRange, validFrames, gfI, gfCur,
                 errChan, errClosed, frameClosed>>
  /\ UNCHANGED <<ctlVars, rngVars, prsVars>>

\* The reader receives the last frame; the goroutine returns and the deferred
\* calls close errChan and frameChan.
GF_SendFinal ==
  /\ gfPc = "send_final"
  /\ received' = Append(received, pending[1])
  /\ pending' = <<>>
  /\ errClosed' = errClosed + 1
  /\ frameClosed' = frameClosed + 1
  /\ gfPc' = "done"
  /\ UNCHANGED <<artifacts, speedup, timeRange, validFrames, gfI, gfCur,
                 errChan>>
  /\ UNCHANGED <<ctlVars, rngVars, prsVars>>

SchedNext == GF_Start \/ GF_Loop \/ GF_Send \/ GF_Final \/ GF_SendFinal

\* ------------------------------------------------------------ time ranges
\* Times are whole units counted from the Unix epoch; a time before 1970 is
\* negative.  Bounds: the latest clock value, the longest duration, and the
\* number of calls of MakeTimeRange in a run.
MaxClock == 3
MaxDuration == 2
MaxCalls == 2

\* The times an argument or a capture time can be, one of them before the
\* epoch; the durations (a time.Duration can be negative).
Times == (0 - 1)..MaxClock
Durations == (0 - 1)..MaxDuration

\* An optional argument: <<>> for nil, <<v>> for a pointer to v.
Opt(S) == {<<>>} \cup { <<v>> : v \in S }

\* The earliest time there is, standing for the start of the range.
epoch_Earliest == CHOOSE t \in Times : \A u \in Times : t <= u

\* epoch := time.Unix(0, 0)
epoch == 0

\* A clock read once, at the first call, and remembered.
Now_Memoized == IF calls = <<>> THEN clock ELSE calls[1].at

\* time.Now()
Now == clock

\* Before that also holds of equal times.
Before_OrEqual(a, b) == a <= b

\* time.Time.Before
Before(a, b) == a < b

\* Add that leaves the time where it is.
Add_Ignored(t, d) == t

\* time.Time.Add
Add(t, d) == t + d

\* MakeTimeRange(start, end, duration): the range returned, or the error.
MakeTimeRange(start, end, duration) ==
  IF start # <<>> /\ end # <<>>
  THEN IF duration # <<>>
       THEN [err |-> "duration_with_both", start |-> 0, end |-> 0]
       ELSE IF Before(end[1], start[1])
       THEN [err |-> "end_before_start", start |-> 0, end |-> 0]
       ELSE [err |-> "nil", start |-> start[1], end |-> end[1]]
  ELSE LET now == Now IN
       IF duration # <<>>
       THEN IF start # <<>>
            THEN [err |-> "nil", start |-> start[1],
                  end |-> Add(start[1], duration[1])]
            ELSE IF end # <<>>
            THEN [err |-> "nil", start |-> Add(end[1], 0 - duration[1]),
                  end |-> end[1]]
            ELSE [err |-> "nil", start |-> Add(now, 0 - duration[1]),
                  end |-> now]
       ELSE [err |-> "nil",
             start |-> IF start = <<>> THEN epoch ELSE start[1],
             end |-> IF end = <<>> THEN now ELSE end[1]]

\* The arguments of the calls, and the clock when the program starts.
RangeInputs ==
  /\ argStart \in Opt(Times)
  /\ argEnd \in Opt(Times)
  /\ argDuration \in Opt(Durations)
  /\ clock \in 0..1
  /\ calls = <<>>

\* No call of MakeTimeRange is made while another part is the one running.
RangeIdle ==
  /\ argStart = <<>>
  /\ argEnd = <<>>
  /\ argDuration = <<>>
  /\ clock = 0
  /\ calls = <<>>

\* Time passes.
Tick ==
  /\ clock < MaxClock
  /\ clock' = clock + 1
  /\ UNCHANGED <<argStart, argEnd, argDuration, calls>>
  /\ UNCHANGED <<ctlVars, schVars, prsVars>>

\* One call of MakeTimeRange with the arguments of the run.
Call ==
  /\ Len(calls) < MaxCalls
  /\ calls' = Append(calls, [at |-> clock,
                             out |-> MakeTimeRange(argStart, argEnd, argDuration)])
  /\ UNCHANGED <<argStart, argEnd, argDuration, clock>>
  /\ UNCHANGED <<ctlVars, schVars, prsVars>>

RangeNext == Tick \/ Call

\* ------------------------------------------------------------ durations
\* Bound: the number of pieces an input of ParseDuration is put together from.
MaxPieces == 3

\* Bounds: the number of pieces an input of ParseTime is put together from,
\* and the seconds the capture instants spread over.
MaxTimePieces == 4
MaxCapture == 20

\* A string is a sequence of one-character strings.
DigitChars == <<"0", "1", "2", "3", "4", "5", "6", "7", "8", "9">>

\* isDigit := r >= '0' && r <= '9'
IsDigit(r) == \E n \in 1..10 : DigitChars[n] = r

\* The digit a digit character stands for.
DigitValue(r) == (CHOOSE n \in 1..10 : DigitChars[n] = r) - 1

\* isUnit := r == 'w' || r == 'd' || r == 'h' || r == 'm'
IsUnit(r) == r \in {"w", "d", "h", "m"}

\* The pieces the inputs are put together from: numerals (one above the
\* number of weeks an int64 of nanoseconds holds, one of ten digits), the
\* unit letters, another letter, and a decimal point followed by a digit.
DurPieces ==
  { <<"1">>, <<"3", "0">>, <<"4", "5">>, <<"2", "0", "0", "0", "0">>,
    <<"9", "9", "9", "9", "9", "9", "9", "9", "9", "9">>,
    <<"w">>, <<"d">>, <<"h">>, <<"m">>, <<"x">>, <<".", "5">> }

RECURSIVE Concat(_)
Concat(ps) == IF ps = <<>> THEN <<>> ELSE Head(ps) \o Concat(Tail(ps))

DurValues ==
  { Concat(ps) : ps \in UNION { [1..n -> DurPieces] : n \in 0..MaxPieces } }

\* An int64 is kept as Limbs64 limbs of 16 bits, the lowest first, so that
\* arithmetic wraps at 2^64 as it does in Go.
LimbBase == 65536
Limbs64 == 4

Zero(w) == [i \in 1..w |-> 0]

\* x * k + c on w limbs, for a small k: what does not fit is dropped.
RECURSIVE MulAddFrom(_, _, _, _)
MulAddFrom(x, k, i, carry) ==
  IF i > Len(x) THEN <<>>
  ELSE LET t == x[i] * k + carry
       IN <<t % LimbBase>> \o MulAddFrom(x, k, i + 1, t \div LimbBase)

MulAdd(x, k, c) == MulAddFrom(x, k, 1, c)

\* x + y on the limbs of x: what does not fit is dropped.
RECURSIVE AddFrom(_, _, _, _)
AddFrom(x, y, i, carry) ==
  IF i > Len(x) THEN <<>>
  ELSE LET t == x[i] + y[i] + carry
       IN <<t % LimbBase>> \o AddFrom(x, y, i + 1, t \div LimbBase)

Add64(x, y) == AddFrom(x, y, 1, 0)

\* x times each of the factors in turn.
RECURSIVE MulAll(_, _)
MulAll(x, ks) ==
  IF ks = <<>> THEN x ELSE MulAll(MulAdd(x, Head(ks), 0), Tail(ks))

\* The sign of an int64.
Negative(x) == x[Limbs64] >= LimbBase \div 2

\* strconv.Atoi of a string of digits: the value, or a range error when it
\* is above 2^63 - 1.  The value is built on one limb more than an int64.
RECURSIVE AtoiFrom(_, _, _)
AtoiFrom(num, i, acc) ==
  IF i > Len(num) THEN acc
  ELSE IF acc.err THEN acc
  ELSE LET v == MulAdd(acc.v, 10, DigitValue(num[i]))
       IN AtoiFrom(num, i + 1,
                   [err |-> v[Limbs64 + 1] > 0 \/ v[Limbs64] >= LimbBase \div 2,
                    v |-> v])

Atoi(num) ==
  LET r == AtoiFrom(num, 1, [err |-> FALSE, v |-> Zero(Limbs64 + 1)])
  IN [err |-> r.err, n |-> SubSeq(r.v, 1, Limbs64)]

\* The factors of a unit in nanoseconds: 7 * 24 * time.Hour, 24 * time.Hour,
\* time.Hour, time.Minute (a second is 1000 * 1000 * 1000 ns).
UnitFactors(unit) ==
  CASE unit = "w" -> <<7, 24, 3600, 1000, 1000, 1000>>
    [] unit = "d" -> <<24, 3600, 1000, 1000, 1000>>
    [] unit = "h" -> <<3600, 1000, 1000, 1000>>
    [] unit = "m" -> <<60, 1000, 1000, 1000>>

\* The loop over the characters of value: the parts found, the part being
\* built, inNumber, and whether an invalid character ended the loop.  A unit
\* letter met outside a number matches no branch and is passed over.
RECURSIVE ScanFrom(_, _, _)
ScanFrom(value, i, st) ==
  IF i > Len(value) \/ st.invalid THEN st
  ELSE LET r == value[i] IN
       ScanFrom(value, i + 1,
         IF ~st.inNumber /\ IsDigit(r)
         THEN [st EXCEPT !.inNumber = TRUE, !.current = Append(st.current, r)]
         ELSE IF st.inNumber /\ IsDigit(r)
         THEN [st EXCEPT !.current = Append(st.current, r)]
         ELSE IF st.inNumber /\ IsUnit(r)
         THEN [st EXCEPT !.parts = Append(st.parts, Append(st.current, r)),
                         !.current = <<>>, !.inNumber = FALSE]
         ELSE IF ~IsDigit(r) /\ ~IsUnit(r)
         THEN [st EXCEPT !.invalid = TRUE]
         ELSE st)

Scan(value) ==
  ScanFrom(value, 1,
           [parts |-> <<>>, current |-> <<>>, inNumber |-> FALSE,
            invalid |-> FALSE])

\* The scan that lets a number without a unit at the end pass.
Incomplete_Ignored(sc) == FALSE

\* if inNumber: the value ended in the middle of a number.
Incomplete(sc) == sc.inNumber

\* The loop over the parts: each part is a number and a unit letter; the
\* number goes through Atoi and is multiplied and added as an int64.
RECURSIVE TotalFrom(_, _, _)
TotalFrom(parts, i, total) ==
  IF i > Len(parts) THEN [err |-> "nil", dur |-> <<total>>]
  ELSE LET part == parts[i]
           num == SubSeq(part, 1, Len(part) - 1)
           unit == part[Len(part)]
           a == Atoi(num)
       IN IF a.err THEN [err |-> "invalid_number", dur |-> <<>>]
          ELSE TotalFrom(parts, i + 1,
                         Add64(total, MulAll(a.n, UnitFactors(unit))))

\* ParseDuration(value): the error, and the duration (<<>> for a nil
\* pointer, <<d>> for a pointer to d).
ParseDuration(value) ==
  IF value = <<>> THEN [err |-> "nil", dur |-> <<>>]
  ELSE LET sc == Scan(value)
       IN IF sc.invalid THEN [err |-> "invalid_character", dur |-> <<>>]
          ELSE IF Incomplete(sc) THEN [err |-> "incomplete", dur |-> <<>>]
          ELSE TotalFrom(sc.parts, 1, Zero(Limbs64))

\* The argument of the call.
ParseInputs ==
  /\ durValue \in DurValues
  /\ durOut = <<>>

\* ParseDuration is not called.
DurIdle ==
  /\ durValue = <<>>
  /\ durOut = <<>>

\* The call of ParseDuration.
CallParseDuration ==
  /\ durOut = <<>>
  /\ durOut' = <<ParseDuration(durValue)>>
  /\ UNCHANGED <<durValue, timeVars, nameVars>>
  /\ UNCHANGED <<ctlVars, schVars, rngVars>>

ParseNext == CallParseDuration

\* ------------------------------------------------------------ times
\* The pieces the inputs of ParseTime are put together from: a date, a time
\* of day, a seconds component, separators, a hyphen, a colon, a lower-case
\* and an upper-case letter.
TimePieces ==
  { <<"2", "0", "2", "4", "-", "0", "3", "-", "2", "0">>,
    <<"1", "4", ":", "3", "0">>, <<":", "4", "5">>,
    <<" ">>, <<"_">>, <<".">>, <<"-">>, <<":">>, <<"x">>, <<"T">> }

TimeValues ==
  { Concat(ps) : ps \in UNION { [1..n -> TimePieces] : n \in 0..MaxTimePieces } }

\* The local dates time.Now() can fall on.
Todays ==
  { [year |-> 2024, month |-> 3, day |-> 20],
    [year |-> 2024, month |-> 12, day |-> 31] }

\* (r >= 'a' && r <= 'z') || (r >= 'A' && r <= 'Z')
IsLetter(r) ==
  \/ r \in { "a", "b", "c", "d", "e", "f", "g", "h", "i", "j", "k", "l", "m",
          "n", "o", "p", "q", "r", "s", "t", "u", "v", "w", "x", "y", "z" }
  \/ r \in { "A", "B", "C", "D", "E", "F", "G", "H", "I", "J", "K", "L", "M",
          "N", "O", "P", "Q", "R", "S", "T", "U", "V", "W", "X", "Y", "Z" }

\* The separator test that takes a dot for a character of a field.
IsFieldChar_WithDot(r) ==
  IsDigit(r) \/ IsLetter(r) \/ r = ":" \/ r = "-" \/ r = "."

\* The characters strings.FieldsFunc does not split on: digits, letters,
\* the colon and the hyphen.
IsFieldChar(r) == IsDigit(r) \/ IsLetter(r) \/ r = ":" \/ r = "-"

\* strings.FieldsFunc: the maximal runs of field characters; cur is the
\* field being read.
RECURSIVE FieldsFrom(_, _, _)
FieldsFrom(value, i, cur) ==
  IF i > Len(value) THEN (IF cur = <<>> THEN <<>> ELSE <<cur>>)
  ELSE IF IsFieldChar(value[i]) THEN FieldsFrom(value, i + 1, Append(cur, value[i]))
  ELSE (IF cur = <<>> THEN <<>> ELSE <<cur>>) \o FieldsFrom(value, i + 1, <<>>)

FieldsFunc(value) == FieldsFrom(value, 1, <<>>)

\* strings.Contains(value, c) for a one-character c.
Contains(value, c) == \E i \in 1..Len(value) : value[i] = c

\* Whether the n characters of v from position i on are there and are digits.
DigitsAt(v, i, n) ==
  /\ i + n - 1 <= Len(v)
  /\ \A k \in i..(i + n - 1) : IsDigit(v[k])

\* The number the n digits of v from position i on stand for.
RECURSIVE NumAt(_, _, _)
NumAt(v, i, n) ==
  IF n = 0 THEN 0 ELSE NumAt(v, i, n - 1) * 10 + DigitValue(v[i + n - 1])

\* The days of a month.
DaysIn(year, month) ==
  IF month = 2
  THEN (IF year % 4 = 0 /\ (year % 100 # 0 \/ year % 400 = 0) THEN 29 ELSE 28)
  ELSE IF month \in {4, 6, 9, 11} THEN 30 ELSE 31

\* time.ParseInLocation("2006-01-02", v, time.Local): four digits, a hyphen,
\* two digits, a hyphen, two digits and nothing more; month and day in range.
ParseDateLayout(v) ==
  IF /\ Len(v) = 10
     /\ DigitsAt(v, 1, 4) /\ v[5] = "-"
     /\ DigitsAt(v, 6, 2) /\ v[8] = "-"
     /\ DigitsAt(v, 9, 2)
  THEN LET y == NumAt(v, 1, 4)
           m == NumAt(v, 6, 2)
           d == NumAt(v, 9, 2)
       IN [ok |-> m \in 1..12 /\ d >= 1 /\ d <= DaysIn(y, m),
           year |-> y, month |-> m, day |-> d]
  ELSE [ok |-> FALSE, year |-> 0, month |-> 0, day |-> 0]

\* time.ParseInLocation("15:04", v, time.Local): an hour of one or two
\* digits, a colon, two digits and nothing more; hour and minute in range.
ParseClockLayout(v) ==
  LET hd == IF DigitsAt(v, 1, 2) THEN 2 ELSE 1
  IN IF /\ DigitsAt(v, 1, hd)
        /\ Len(v) = hd + 3
        /\ v[hd + 1] = ":"
        /\ DigitsAt(v, hd + 2, 2)
     THEN LET h == NumAt(v, 1, hd)
              m == NumAt(v, hd + 2, 2)
          IN [ok |-> h <= 23 /\ m <= 59, hour |-> h, minute |-> m]
     ELSE [ok |-> FALSE, hour |-> 0, minute |-> 0]

\* time.Date(year, month, day, hour, minute, 0, 0, time.Local)
Date(year, month, day, hour, minute) ==
  [year |-> year, month |-> month, day |-> day,
   hour |-> hour, minute |-> minute, second |-> 0]

\* ParseTime(value), where time.Now() falls on the local date now: the
\* error, and the time (<<>> for a nil pointer).
ParseTime(value, now) ==
  IF value = <<>> THEN [err |-> "nil", t |-> <<>>]
  ELSE IF Contains(value, ":") /\ ~Contains(value, "-")
  THEN LET c == ParseClockLayout(value)
       IN IF c.ok
          THEN [err |-> "nil",
                t |-> <<Date(now.year, now.month, now.day, c.hour, c.minute)>>]
          ELSE [err |-> "invalid_time", t |-> <<>>]
  ELSE LET parts == FieldsFunc(value)
       IN IF Len(parts) = 0 THEN [err |-> "empty_after_split", t |-> <<>>]
          ELSE IF Len(parts) = 1
          THEN LET d == ParseDateLayout(parts[1])
               IN IF d.ok
                  THEN [err |-> "nil", t |-> <<Date(d.year, d.month, d.day, 0, 0)>>]
                  ELSE [err |-> "invalid_date", t |-> <<>>]
          ELSE IF Len(parts) = 2
          THEN LET d == ParseDateLayout(parts[1])
                   c == ParseClockLayout(parts[2])
               IN IF ~d.ok THEN [err |-> "invalid_date", t |-> <<>>]
                  ELSE IF c.ok
                  THEN [err |-> "nil",
                        t |-> <<Date(d.year, d.month, d.day, c.hour, c.minute)>>]
                  ELSE [err |-> "invalid_time", t |-> <<>>]
          ELSE [err |-> "invalid_value", t |-> <<>>]

\* The argument of the call.
TimeInputs ==
  /\ timeValue \in TimeValues
  /\ timeOut = <<>>

\* ParseTime is not called.
TimeIdle ==
  /\ timeValue = <<>>
  /\ timeOut = <<>>

\* The call of ParseTime, on one of the days.
CallParseTime ==
  /\ timeOut = <<>>
  /\ \E now \in Todays :
       timeOut' = <<[now |-> now, res |-> ParseTime(timeValue, now)]>>
  /\ UNCHANGED <<durValue, durOut, timeValue, nameVars>>
  /\ UNCHANGED <<ctlVars, schVars, rngVars>>

TimeNext == CallParseTime

\* ------------------------------------------------------------ naming
\* The local time zones tried: an hour behind UTC, UTC, an hour ahead.
TzOffsets == {0 - 3600, 0, 3600}

\* The capture instants tried, in seconds from the midnight (UTC) the first
\* day of the collection starts with: some early in the day, some late.
CaptureTimes ==
  { 3600 + k : k \in 0..MaxCapture } \cup { 86400 - 1800 + k : k \in 0..MaxCapture }

\* now.Format(timeFormat) of the instant t in a zone of offset off: the date
\* and the time of day of the local clock.
FormatLocal(t, off) == FrameFile(t + off)

NameInputs ==
  /\ capAt \in CaptureTimes
  /\ tzOffset \in TzOffsets
  /\ capName = <<>>
  /\ recovered = <<>>

\* No frame is being named.
NameIdle ==
  /\ capAt = 0
  /\ tzOffset = 0
  /\ capName = <<>>
  /\ recovered = <<>>

\* ExtractFirstFrame names the frame after the local time.
NameFrame ==
  /\ capName = <<>>
  /\ capName' = <<FormatLocal(capAt, tzOffset)>>
  /\ UNCHANGED <<durValue, durOut, timeVars, capAt, tzOffset, recovered>>
  /\ UNCHANGED <<ctlVars, schVars, rngVars>>

\* The walk of GenerateFrames calls parseFrameTime on the name: time.Parse
\* reads the date and the time of day as UTC.
RecoverTime ==
  /\ capName # <<>>
  /\ recovered = <<>>
  /\ recovered' = <<parseFrameTime(capName[1])>>
  /\ UNCHANGED <<durValue, durOut, timeVars, capAt, tzOffset, capName>>
  /\ UNCHANGED <<ctlVars, schVars, rngVars>>

NameNext == NameFrame \/ RecoverTime

\* No parser is called and no frame is named while another part is the one
\* running.
ParseIdle == DurIdle /\ TimeIdle /\ NameIdle

ParseInit == CtlInit /\ SchedIdle /\ RangeIdle /\ ParseInputs /\ TimeIdle /\ NameIdle

ParseSpec == ParseInit /\ [][ParseNext]_vars

TimeInit == CtlInit /\ SchedIdle /\ RangeIdle /\ DurIdle /\ TimeInputs /\ NameIdle

TimeSpec == TimeInit /\ [][TimeNext]_vars

NameInit == CtlInit /\ SchedIdle /\ RangeIdle /\ DurIdle /\ TimeIdle /\ NameInputs

NameSpec == NameInit /\ [][NameNext]_vars

RangeInit == CtlInit /\ SchedIdle /\ RangeInputs /\ ParseIdle

RangeSpec == RangeInit /\ [][RangeNext]_vars

SchedInit == CtlInit /\ SchedInputs /\ RangeIdle /\ ParseIdle

SchedSpec == SchedInit /\ [][SchedNext]_vars

\* The goroutine takes its next step when it can, and the reader of frameChan
\* keeps receiving, so a pending send completes.
\* The channel protocol does not depend on the time range: the runs taken
\* are the ones without a time range.
SchedFairInit == SchedInit /\ timeRange = <<>>

SchedFairSpec == SchedFairInit /\ [][SchedNext]_vars /\ WF_vars(SchedNext)

Init == CtlInit /\ SchedIdle /\ RangeIdle /\ ParseIdle

Next == MainNext \/ MonitorNext \/ TrackNext \/ EnvNext

Spec == Init /\ [][Next]_vars

\* The scheduling Go and its timers give: the main goroutine and the monitor
\* goroutine each take their next step when one is possible (a pending timeout
\* fires unless the awaited event comes first).  The remote side owes nothing.
FairSpec == Spec /\ WF_vars(MainNext) /\ WF_vars(MonitorNext)

\* ------------------------------------------------------------ claims
\* The tracks whose handler runs, or ran, writeH264ToBuffer.
Consumers == {i \in 1..Len(tracks) : tracks[i].st \in {"reading", "publish", "done"}}

InStages(x) == \E k \in 1..Len(stages) : stages[k] = x

\* C1: a run that returns after the peer connection was created has invoked
\* Close on it at least once, whatever the path it returned by.
C1_CloseBeforeReturn ==
  (pc = "returned" /\ deferClose) => closeCalls >= 1

\* A run that ends by the connect timeout, where only the deferred Close runs.
C1_Witness ==
  pc = "returned" /\ deferClose /\ result = "err_conn_timeout" /\ closeCalls = 1

\* C2 as stated: a run that reached the connected stage has invoked Close
\* exactly once when it returns.
C2_ExactlyOnce ==
  (pc = "returned" /\ wfcResult = "ok") => closeCalls = 1

\* C2 amended: a returned run with a session has invoked Close once if
\* WaitForConnection did not succeed, and twice if it did (the call made by
\* WaitForConnectionClose and the deferred one); never zero times.
C2_CloseCount ==
  (pc = "returned" /\ deferClose) =>
     closeCalls = (IF wfcResult = "ok" THEN 2 ELSE 1)

\* A connected run that recorded, closed, collected its buffer and returned
\* with success: Close was invoked by the close stage and by the defer.
C2_Witness ==
  /\ pc = "returned" /\ wfcResult = "ok" /\ closeCalls = 2
  /\ InStages("close") /\ result = "ok"

\* C3 as stated: a close timeout is non-fatal.  When the main goroutine
\* leaves the close wait before the session reported closed, it goes on to
\* collect the buffer, and the close timeout is never the error the run
\* returns.
C3_CloseTimeoutNotReturned ==
  /\ [](result # "err_close_timeout")
  /\ [][(pc = "wfcc_select" /\ ~closeDone /\ pc' # pc) => pc' = "collect"]_vars

\* C4: when the main goroutine leaves the collect wait with no buffer
\* delivered, the run fails with the no-media error; a run that failed so
\* invoked the encoder never and received no buffer.
C4_NoMedia ==
  /\ [](result = "err_no_media" =>
          pc = "returned" /\ encoderCalls = 0 /\ collected = <<>>)
  /\ [][(pc = "collect" /\ videoData = <<>> /\ pc' # pc) =>
          (pc' = "returned" /\ result' = "err_no_media" /\ encoderCalls' = 0)]_vars

\* A run with tracks, none of them qualifying, that ended with no media.
C4_Witness ==
  /\ result = "err_no_media" /\ Len(tracks) >= 1 /\ Consumers = {}
  /\ connState = "closed"

\* C5 as stated: once connected was reached within the bound, before any
\* failed or closed state, WaitForConnection reports success.
C5_ConnectedIsSuccess ==
  (wfcResult # "none" /\ reachedInTime) => wfcResult = "ok"

\* C5 amended: WaitForConnection returns by the first of: the monitor's poll
\* saw connected (success), the poll saw failed or closed (connection failed),
\* the timer fired before either (timeout).  Success implies that connected
\* was reached; a connected state that the poll did not see is not reported.
C5_Outcomes ==
  /\ [](/\ wfcResult \in {"none", "ok", "err_conn_failed", "err_conn_timeout"}
        /\ (wfcResult = "ok" => wfcDone /\ reachedInTime)
        /\ (wfcDone => reachedInTime)
        /\ (wfcResult = "err_conn_failed" => wfcFailed /\ sawFailed)
        /\ ~(wfcDone /\ wfcFailed))
  /\ [][(pc = "wfc_select" /\ pc' # pc) =>
          wfcResult' = (IF wfcDone THEN "ok"
                        ELSE IF wfcFailed THEN "err_conn_failed"
                        ELSE "err_conn_timeout")]_vars

\* Connected was reached in time, and the wait still reported failure.
C5_Witness ==
  reachedInTime /\ wfcResult = "err_conn_failed"

\* The errors of the negotiation stage.
NegotiationTimeouts == {"err_gather_timeout"}
NegotiationRejections ==
  {"err_answer_exec", "err_answer_parse", "err_answer_empty", "err_set_remote"}

\* C6: a gather wait left before gathering completed returns the gather
\* timeout; an answer that is an error, empty or not applicable returns a
\* rejection; and a run that failed in negotiation never waited for the
\* connection, recorded or collected a buffer.
C6_NegotiationFailures ==
  /\ [](result \in NegotiationTimeouts \cup NegotiationRejections =>
          /\ pc = "returned" /\ monPc = "idle" /\ wfcResult = "none"
          /\ ~InStages("await_connected") /\ ~InStages("record")
          /\ ~InStages("collect") /\ collected = <<>> /\ encoderCalls = 0)
  /\ [][/\ (pc = "gather_wait" /\ ~gathered /\ pc' # pc) =>
             (pc' = "returned" /\ result' \in NegotiationTimeouts)
        /\ (pc = "gen_stream" /\ pc' # pc) =>
             \/ (pc' = "set_remote" /\ answerSdp' # "")
             \/ (pc' = "returned" /\ result' \in NegotiationRejections)
        /\ (pc = "set_remote" /\ pc' # pc) =>
             \/ (pc' = "wfc_start" /\ answerSdp = "sdp_ok")
             \/ (pc' = "returned" /\ result' \in NegotiationRejections)]_vars

\* A run rejected because the device answered with an empty SDP.
C6_Witness == result = "err_answer_empty" /\ deferClose /\ closeCalls = 1

\* C7: at most one track of a session has a consumer writing a buffer.
C7_OneConsumer == Cardinality(Consumers) <= 1

\* C8: the buffer is sent on videoData at most once in a session.
C8_SinglePublish == publishes <= 1

\* C9: under fair scheduling every run returns, and the monitor goroutine
\* exits once WaitForConnection has returned.
C9_Terminates ==
  /\ <>(pc = "returned")
  /\ [](wfcResult # "none" => <>(monPc = "exited"))

\* A run ended by a timeout, with the monitor gone.
C9_Witness ==
  pc = "returned" /\ result = "err_conn_timeout" /\ monPc = "exited"
\* ------------------------------------------------------------ scheduler claims
\* The position in validFrames of the frame with this id.
PosOf(id) == CHOOSE k \in 1..Len(validFrames) : validFrames[k].id = id

\* C10: validFrames is sorted by capture time; the frames received so far are
\* frames of validFrames taken in increasing position, the first of them the
\* earliest one, with strictly increasing capture times; and a finished
\* schedule has between 1 and Len(validFrames) frames.
C10_Subsequence ==
  /\ \A k \in 1..(Len(validFrames) - 1) : validFrames[k].t <= validFrames[k + 1].t
  /\ \A k \in 1..Len(received) :
       \E j \in 1..Len(validFrames) : validFrames[j].id = received[k].id
  /\ Len(received) >= 1 =>
       /\ PosOf(received[1].id) = 1
       /\ \A j \in 1..Len(validFrames) : received[1].t <= validFrames[j].t
  /\ \A k \in 1..(Len(received) - 1) :
       /\ PosOf(received[k].id) < PosOf(received[k + 1].id)
       /\ received[k].t < received[k + 1].t
  /\ (gfPc = "done" /\ errChan = <<>>) =>
       (Len(received) >= 1 /\ Len(received) <= Len(validFrames))
  /\ gfPc \in {"loop", "send", "send_final"} \/ (gfPc = "done" /\ errChan = <<>>) =>
       Len(validFrames) = Len(FilterFrames(artifacts, timeRange))

\* A finished schedule over files with a tie in capture time, where frames
\* were merged and more than one frame was still sent.
C10_Witness ==
  /\ gfPc = "done"
  /\ Len(received) >= 2
  /\ Len(received) < Len(validFrames)
  /\ \E j \in 1..(Len(validFrames) - 1) : validFrames[j].t = validFrames[j + 1].t

\* The frames already received that are not the final frame of the schedule.
NonFinal == 1..(IF gfPc = "done" THEN Len(received) - 1 ELSE Len(received))

\* C11 as stated: the final frame has duration 0 and no duration line; a
\* non-final frame has a duration of at least minFrameDuration and a duration
\* line; and two frames whose gap divided by the speedup is below 1/maxFPS
\* second come out as one frame.
C11_MinDuration ==
  /\ (gfPc = "done" /\ received # <<>>) =>
       /\ received[Len(received)].dur = [s |-> 0, ns |-> 0]
       /\ Len(String(received[Len(received)])) = 1
  /\ \A k \in NonFinal :
       /\ ~DurLess(received[k].dur, minFrameDuration)
       /\ Len(String(received[k])) = 2
  /\ (gfPc = "done" /\ Len(validFrames) = 2
        /\ maxFPS * (validFrames[2].t - validFrames[1].t) * speedup.den < speedup.num) =>
       Len(received) = 1

\* C12: with a time range, the frames kept are exactly the well-named files
\* captured at start <= t <= end, both ends included, and no other frame is
\* kept or sent.
C12_InclusiveInterval ==
  (timeRange # <<>> /\ gfPc \in {"loop", "send", "send_final"}) =>
    /\ \A j \in 1..Len(validFrames) :
         /\ timeRange[1].start <= validFrames[j].t
         /\ validFrames[j].t <= timeRange[1].end
    /\ \A k \in 1..Len(received) :
         /\ timeRange[1].start <= received[k].t
         /\ received[k].t <= timeRange[1].end
    /\ \A k \in 1..Len(artifacts) : \A t \in 0..MaxTime :
         (artifacts[k].name = FrameFile(t)
            /\ timeRange[1].start <= t /\ t <= timeRange[1].end) =>
           \E j \in 1..Len(validFrames) :
             validFrames[j].id = k /\ validFrames[j].t = t

\* A frame captured at the start of the range and one captured at its end are
\* kept, a file captured after the end is not, and the frame at the end was
\* sent.
C12_Witness ==
  /\ gfPc = "send_final"
  /\ timeRange # <<>>
  /\ timeRange[1].start < timeRange[1].end
  /\ \E j \in 1..Len(validFrames) : validFrames[j].t = timeRange[1].start
  /\ pending # <<>> /\ pending[1].t = timeRange[1].end
  /\ \E k \in 1..Len(artifacts) : \E t \in 0..MaxTime :
       artifacts[k].name = FrameFile(t) /\ t > timeRange[1].end
  /\ Len(validFrames) < Len(artifacts)

\* C13: an error and frames never come from the same run, at most one error
\* is sent, and a run that is left with no frame after the walk sends an error
\* and no frame.
C13_ErrorOrFrames ==
  /\ errChan # <<>> => (received = <<>> /\ pending = <<>> /\ gfPc = "done")
  /\ Len(errChan) <= 1
  /\ (gfPc \notin {"start", "panic_index"}
        /\ FilterFrames(artifacts, timeRange) = <<>>) =>
       (errChan # <<>> /\ received = <<>> /\ pending = <<>>)

\* A directory with a well-named frame that the time range filters out: the
\* run ends with the error and no frame.
C13_Witness ==
  /\ gfPc = "done"
  /\ errChan = <<"no valid image files">>
  /\ received = <<>>
  /\ timeRange # <<>>
  /\ \E k \in 1..Len(artifacts) : artifacts[k].name = FrameFile(0)

\* C14 as stated: the duration of a non-final frame is the gap to the next
\* frame sent divided by the speedup itself (to the nanosecond), whether the
\* speedup is an integer or not.
C14_ExactRatio ==
  \A k \in 1..(Len(received) - 1) :
    received[k].dur =
      DivSeconds((received[k + 1].t - received[k].t) * speedup.den, speedup.num)

\* The greedy reference over the sorted frames fs from position i on, the
\* last frame taken being the one at position prev: the frame at i is taken
\* iff its gap to the frame at prev, divided by the speedup, is at least
\* 1/maxFPS second.
RECURSIVE Greedy(_, _, _)
Greedy(fs, i, prev) ==
  IF i > Len(fs) THEN <<>>
  ELSE IF maxFPS * (fs[i].t - fs[prev].t) * speedup.den >= speedup.num
       THEN <<fs[i].id>> \o Greedy(fs, i + 1, i)
       ELSE Greedy(fs, i + 1, prev)

\* C15 as stated: a finished schedule is the schedule of the greedy
\* reference, the earliest frame followed by each frame whose gap to the
\* frame taken before it, divided by the speedup, is at least 1/maxFPS second.
C15_GreedyReference ==
  (gfPc = "done" /\ errChan = <<>>) =>
    [k \in 1..Len(received) |-> received[k].id]
      = <<validFrames[1].id>> \o Greedy(validFrames, 2, 1)

\* C16 as stated: a file whose name does not match the pattern never faults
\* the run, no frame comes from such a file, and the run reports that there
\* is no image only when no file is left.
C16_NonMatchingExcluded ==
  /\ gfPc # "panic_index"
  /\ \A k \in 1..Len(received) :
       \E t \in 0..MaxTime : artifacts[received[k].id].name = FrameFile(t)
  /\ (gfPc = "done" /\ errChan = <<"no valid image files">>) =>
       FilterFrames(artifacts, timeRange) = <<>>

\* The calls made with the arguments of the run, by position.
CallIds == 1..Len(calls)

\* C17: with start and end both given, a duration makes the call fail, an
\* end before the start makes it fail, and otherwise the range returned is
\* exactly [start, end], equal bounds included.
C17_BothBounds ==
  (argStart # <<>> /\ argEnd # <<>>) =>
    \A k \in CallIds :
      IF argDuration # <<>>
      THEN calls[k].out.err = "duration_with_both"
      ELSE IF argEnd[1] < argStart[1]
      THEN calls[k].out.err = "end_before_start"
      ELSE calls[k].out = [err |-> "nil", start |-> argStart[1], end |-> argEnd[1]]

\* A call with start = end and no duration, which returns [start, start].
C17_Witness ==
  /\ argStart # <<>> /\ argEnd = argStart /\ argDuration = <<>>
  /\ calls # <<>>
  /\ calls[1].out = [err |-> "nil", start |-> argStart[1], end |-> argStart[1]]

\* C18: with a duration and at most one bound, the call succeeds with
\* [start, start + duration] if start is given, [end - duration, end] if end
\* is given, and [now - duration, now] if neither is.
C18_DurationAnchored ==
  (argDuration # <<>> /\ (argStart = <<>> \/ argEnd = <<>>)) =>
    \A k \in CallIds :
      /\ calls[k].out.err = "nil"
      /\ argStart # <<>> =>
           /\ calls[k].out.start = argStart[1]
           /\ calls[k].out.end = argStart[1] + argDuration[1]
      /\ argEnd # <<>> =>
           /\ calls[k].out.start = argEnd[1] - argDuration[1]
           /\ calls[k].out.end = argEnd[1]
      /\ (argStart = <<>> /\ argEnd = <<>>) =>
           /\ calls[k].out.start = calls[k].at - argDuration[1]
           /\ calls[k].out.end = calls[k].at

\* A call with an end and a duration above zero: the start returned is
\* earlier than the end by the duration.
C18_Witness ==
  /\ argStart = <<>> /\ argEnd # <<>> /\ argDuration # <<>>
  /\ argDuration[1] > 0
  /\ calls # <<>>
  /\ calls[1].out.end = argEnd[1]
  /\ calls[1].out.start = argEnd[1] - argDuration[1]

\* C19 as stated: without start and duration, no capture time, however
\* early, precedes the start of the range returned.
C19_OpenLowerBound ==
  (argStart = <<>> /\ argDuration = <<>>) =>
    \A k \in CallIds : \A t \in Times : ~(t < calls[k].out.start)

\* C19 amended: without start and duration, the start returned is the Unix
\* epoch; the range holds the capture times from the epoch to the end, and a
\* capture time before the epoch is outside it.
C19_EpochLowerBound ==
  (argStart = <<>> /\ argDuration = <<>>) =>
    \A k \in CallIds :
      /\ calls[k].out.err = "nil"
      /\ calls[k].out.start = 0
      /\ \A t \in Times :
           InRange(t, <<calls[k].out>>) <=> (0 <= t /\ t <= calls[k].out.end)

\* A call with an end only: the range starts at the epoch and a time before
\* 1970 is outside it.
C19_Witness ==
  /\ argStart = <<>> /\ argDuration = <<>> /\ argEnd # <<>>
  /\ calls # <<>>
  /\ calls[1].out.start = 0
  /\ \E t \in Times : t < 0 /\ ~InRange(t, <<calls[1].out>>)

\* C20: when end is not given and is not start + duration, the end returned
\* by a call is the clock value at that call.
C20_NowAtCall ==
  (argEnd = <<>> /\ (argStart = <<>> \/ argDuration = <<>>)) =>
    \A k \in CallIds :
      /\ calls[k].out.err = "nil"
      /\ calls[k].out.end = calls[k].at

\* Two calls with the same arguments made at different times: their ends
\* differ, each being the time of its call.
C20_Witness ==
  /\ argEnd = <<>> /\ argStart # <<>> /\ argDuration = <<>>
  /\ Len(calls) = 2
  /\ calls[1].at < calls[2].at
  /\ calls[1].out.end = calls[1].at
  /\ calls[2].out.end = calls[2].at

\* C21 as stated: every range MakeTimeRange returns has start <= end.
C21_StartNotAfterEnd ==
  \A k \in CallIds :
    calls[k].out.err = "nil" => calls[k].out.start <= calls[k].out.end

\* The stages of a run that goes through all of them, in order.
StageOrder ==
  <<"negotiate", "await_connected", "record", "close", "collect", "encode">>

\* C27 as stated: the stages come in order, each at most once; recording
\* starts only after connected was observed; Close is invoked only after the
\* recording window elapsed; the buffer is collected only after closed was
\* observed; the encoder runs only with a collected buffer.
C27_CloseOnlyAfterRecord ==
  /\ Len(stages) <= Len(StageOrder)
  /\ stages = SubSeq(StageOrder, 1, Len(stages))
  /\ InStages("record") => wfcDone
  /\ closeCalls > 0 => (InStages("record") /\ pc # "record_sleep")
  /\ InStages("collect") => closeDone
  /\ encoderCalls > 0 => collected # <<>>

\* C27 amended: the same, where the Close that comes only after the
\* recording window is the one WaitForConnectionClose makes; any other Close
\* is the deferred one, made when the run returns, whatever stage it
\* returns from.
C27_StageOrder ==
  /\ Len(stages) <= Len(StageOrder)
  /\ stages = SubSeq(StageOrder, 1, Len(stages))
  /\ InStages("record") => wfcDone
  /\ InStages("close") =>
       (InStages("record") /\ pc # "record_sleep" /\ closeCalls >= 1)
  /\ (closeCalls > 0 /\ ~InStages("close")) => (pc = "returned" /\ closeCalls = 1)
  /\ closeCalls > 1 => (pc = "returned" /\ closeCalls = 2)
  /\ InStages("collect") => closeDone
  /\ encoderCalls <= 1
  /\ encoderCalls > 0 => (collected # <<>> /\ InStages("collect"))

\* A run that went through every stage and returned the image.
C27_Witness ==
  /\ pc = "returned"
  /\ result = "ok"
  /\ stages = StageOrder
  /\ closeCalls = 2

\* C29 as stated: GenerateFrames never aborts on a division by zero while it
\* computes the frame durations.
C29_NoDivisionFault == gfPc # "panic"

\* C30: errChan never holds more errors than its capacity, so the one send
\* of an error does not block; with a reader that keeps receiving, the
\* goroutine comes to its end with frameChan and errChan closed, each once;
\* and once frameChan is closed no frame and no error is sent.
C30_ChannelProtocol ==
  /\ [](Len(errChan) <= ErrChanCap /\ frameClosed <= 1 /\ errClosed <= 1)
  /\ <>(gfPc \in {"done", "panic", "panic_index"}
          /\ frameClosed = 1 /\ errClosed = 1)
  /\ [][frameClosed = 1 => (received' = received /\ errChan' = errChan
                              /\ frameClosed' = 1 /\ errClosed' = 1)]_vars

\* A run that sent several frames and ended with both channels closed.
C30_Witness ==
  /\ gfPc = "done"
  /\ Len(received) >= 2
  /\ errChan = <<>>
  /\ frameClosed = 1 /\ errClosed = 1

\* Whether the characters from position i on, met in state st ("term" at the
\* start of a term, "number" inside its digits), make up the rest of a
\* concatenation of <integer><unit> terms.
RECURSIVE TermsFrom(_, _, _)
TermsFrom(value, i, st) ==
  IF i > Len(value) THEN st = "term"
  ELSE IF IsDigit(value[i]) THEN TermsFrom(value, i + 1, "number")
  ELSE IF IsUnit(value[i]) /\ st = "number" THEN TermsFrom(value, i + 1, "term")
  ELSE FALSE

\* The value is a concatenation of one or more <integer><unit> terms.
IsTerms(value) == value # <<>> /\ TermsFrom(value, 1, "term")

\* The sum of the terms of such a value in nanoseconds, on limbs enough for
\* nothing to be dropped: num is the number read so far in the current term.
WideLimbs == 4 * Limbs64

RECURSIVE ExactFrom(_, _, _, _)
ExactFrom(value, i, num, sum) ==
  IF i > Len(value) THEN sum
  ELSE IF IsDigit(value[i])
  THEN ExactFrom(value, i + 1, MulAdd(num, 10, DigitValue(value[i])), sum)
  ELSE ExactFrom(value, i + 1, Zero(WideLimbs),
                 Add64(sum, MulAll(num, UnitFactors(value[i]))))

ExactSum(value) == ExactFrom(value, 1, Zero(WideLimbs), Zero(WideLimbs))

\* An int64 that is not negative, on the limbs of the exact sum.
Widen(x) == x \o Zero(WideLimbs - Limbs64)

\* C22 as stated: a concatenation of <integer><unit> terms is parsed without
\* error to exactly the sum of its terms, which is never negative.
C22_SumOfTerms ==
  (durOut # <<>> /\ IsTerms(durValue)) =>
    /\ durOut[1].err = "nil"
    /\ durOut[1].dur # <<>>
    /\ ~Negative(durOut[1].dur[1])
    /\ Widen(durOut[1].dur[1]) = ExactSum(durValue)

\* C23: a value that ends in a digit, or holds a character that is neither
\* a digit nor one of w, d, h, m (a decimal point among them), is rejected
\* with an error and no duration.
C23_Rejects ==
  (durOut # <<>> /\ durValue # <<>>
     /\ (\/ IsDigit(durValue[Len(durValue)])
         \/ \E i \in 1..Len(durValue) :
              ~IsDigit(durValue[i]) /\ ~IsUnit(durValue[i]))) =>
    (durOut[1].err # "nil" /\ durOut[1].dur = <<>>)

\* The value "45": a number without a unit, rejected as incomplete.
C23_Witness ==
  /\ durValue = <<"4", "5">>
  /\ durOut # <<>>
  /\ durOut[1].err = "incomplete"

\* C24 as stated: a non-empty value is accepted only if it is a
\* concatenation of <integer><unit> terms, and only the empty value gives
\* no duration without an error.
C24_OnlyTerms ==
  durOut # <<>> =>
    /\ (durValue # <<>> /\ durOut[1].err = "nil") => IsTerms(durValue)
    /\ (durOut[1].err = "nil" /\ durOut[1].dur = <<>>) <=> durValue = <<>>

\* The characters of value from position i to position j are there, at
\* least one of them, and none is a digit or a letter.
IsSeparatorRun(value, i, j) ==
  /\ i <= j
  /\ \A k \in i..j : ~IsDigit(value[k]) /\ ~IsLetter(value[k])

\* The positions <<i, j>> at which value splits into a date (up to i), a run
\* of non-alphanumeric characters, and a time of day (from j on).
JoinedAt(value) ==
  { ij \in (1..Len(value)) \X (1..Len(value)) :
      /\ ParseDateLayout(SubSeq(value, 1, ij[1])).ok
      /\ ParseClockLayout(SubSeq(value, ij[2], Len(value))).ok
      /\ IsSeparatorRun(value, ij[1] + 1, ij[2] - 1) }

\* The time a date and a time of day joined at <<i, j>> stand for.
JoinedTime(value, ij) ==
  LET d == ParseDateLayout(SubSeq(value, 1, ij[1]))
      c == ParseClockLayout(SubSeq(value, ij[2], Len(value)))
  IN Date(d.year, d.month, d.day, c.hour, c.minute)

\* The value is a time of day, or a date joined to a time of day, followed
\* by a seconds component.
HasSeconds(value) ==
  /\ Len(value) > 3
  /\ value[Len(value) - 2] = ":"
  /\ DigitsAt(value, Len(value) - 1, 2)
  /\ LET rest == SubSeq(value, 1, Len(value) - 3)
     IN ParseClockLayout(rest).ok \/ JoinedAt(rest) # {}

\* C25 as stated: a date and a time of day joined by a run of
\* non-alphanumeric characters, whatever they are, parse to that date and
\* time with seconds 0; a value with a seconds component is rejected.
C25_AnySeparatorRun ==
  timeOut # <<>> =>
    /\ \A ij \in JoinedAt(timeValue) :
         timeOut[1].res = [err |-> "nil", t |-> <<JoinedTime(timeValue, ij)>>]
    /\ HasSeconds(timeValue) =>
         (timeOut[1].res.err # "nil" /\ timeOut[1].res.t = <<>>)

\* C25 amended: the same for the runs without a hyphen and without a colon;
\* a run with a hyphen or a colon in it makes the value an error.
C25_SeparatorRun ==
  timeOut # <<>> =>
    /\ \A ij \in JoinedAt(timeValue) :
         IF \E k \in (ij[1] + 1)..(ij[2] - 1) : timeValue[k] \in {"-", ":"}
         THEN timeOut[1].res.err # "nil" /\ timeOut[1].res.t = <<>>
         ELSE timeOut[1].res = [err |-> "nil", t |-> <<JoinedTime(timeValue, ij)>>]
    /\ HasSeconds(timeValue) =>
         (timeOut[1].res.err # "nil" /\ timeOut[1].res.t = <<>>)

\* The value "2024-03-20._14:30", a run of two separators: it parses to
\* 2024-03-20 14:30:00.
C25_Witness ==
  /\ timeOut # <<>>
  /\ Len(timeValue) = 17
  /\ <<10, 13>> \in JoinedAt(timeValue)
  /\ timeValue[11] = "." /\ timeValue[12] = "_"
  /\ timeOut[1].res = [err |-> "nil", t |-> <<Date(2024, 3, 20, 14, 30)>>]

\* C26 as stated: a non-empty value is accepted only if it is a bare time
\* of day, a bare date, or a date joined to a time of day by one run of
\* separators; any other value is an error and gives no time.
C26_OnlyThreeShapes ==
  (timeOut # <<>> /\ timeValue # <<>>) =>
    /\ timeOut[1].res.err = "nil" =>
         \/ ParseClockLayout(timeValue).ok
         \/ ParseDateLayout(timeValue).ok
         \/ JoinedAt(timeValue) # {}
    /\ timeOut[1].res.err # "nil" => timeOut[1].res.t = <<>>

\* C28 as stated: the time parseFrameTime recovers from the name of a frame
\* is the instant at which ExtractFirstFrame named it.
C28_RoundTrip ==
  recovered # <<>> =>
    (recovered[1].st = "ok" /\ recovered[1].t = capAt)
====
